---- MODULE Spec2Model ----
(***************************************************************************)
(* A model of fxincome/ml/tbond_predict.py: the ensemble vote, the         *)
(* evaluation of plain and sequential models (eval_plain_models,           *)
(* eval_models), the prediction on the latest row (pred_future), and the   *)
(* metadata store the tests of fxincome.utils.JsonModel exercise.          *)
(*                                                                         *)
(* Probabilities are IEEE-754 doubles, each kept exactly as a pair         *)
(* <<hi, lo>> that stands for (hi * Limb + lo) * 2^-56; additions and      *)
(* subtractions round to 53 significant bits, to nearest, ties to even.    *)
(* The models return the doubles of the literals 0.0, 0.1, ..., 1.0, which *)
(* are written by their tenths: Literal(4) is the double of 0.4.           *)
(***************************************************************************)
EXTENDS Integers, Sequences, FiniteSets, TLC

VARIABLES
    op,            \* the call that has been made: "none" before any call
    row,           \* vote: the row, column name -> value
    weight,        \* vote: the weighting mode
    plain_names,   \* vote, eval_models, eval_plain_models: names of the plain models
    nn_names,      \* vote, eval_models: names of the sequential models
    df,            \* eval_models, eval_plain_models: the evaluation frame, a sequence of rows
    seq_len,       \* eval_models: the length of the time window
    artifacts,     \* the stored model of every name: how it predicts
    plain_perm,    \* the registry: the order in which it iterates the plain models of a list
    nn_perm,       \* the registry: the order in which it iterates the sequential models of a list
    models,        \* pred_future: the fitted models, each by how it predicts
    label_type,    \* pred_future: the rule of the label
    future_period, \* pred_future: the horizon of the label
    json,          \* JsonModel: the stored metadata, a list of entries
    saved,         \* JsonModel: the metadata last saved under every name (history)
    asked,         \* JsonModel: the name of the last lookup
    plain_result,  \* eval_models: its table plain_result when it ends
    result,        \* eval_models: its table result when it ends
    windowed,      \* eval_models: the windows it has asked gen_pred_x for, by model
    logged,        \* what the call has logged
    ret            \* the outcome of the call: a returned value or a raised exception

voteVars == <<row, weight>>
nameVars == <<plain_names, nn_names>>
evalVars == <<df, seq_len, artifacts, plain_perm, nn_perm>>
futureVars == <<models, label_type, future_period>>
jsonVars == <<json, saved, asked>>

vars == <<op, voteVars, nameVars, evalVars, futureVars, jsonVars, plain_result, result, windowed, logged, ret>>

-----------------------------------------------------------------------------
(* Bounds of the model *)

\* longest list of names handed to vote
MaxNames == 2

\* most rows of an evaluation frame
MaxRows == 3

\* longest list of models handed to pred_future
MaxModels == 2

-----------------------------------------------------------------------------
(* Values *)

\* the literal 0.5 of `probs > 0.5`, in tenths
Half == 5
\* the 1 of `1 - probs`, in tenths
One == 2 * Half

\* a double is the pair <<hi, lo>> with 0 <= lo < Limb, standing for
\* (hi * Limb + lo) * 2^-56: 1.0 is <<2^26, 0>>
Limb == 2^30

\* the double of the literal t / 10 (float.hex in the comments)
Literal(t) ==
    CASE t = 0 -> <<0, 0>>                       \* 0x0.0p+0
      [] t = 1 -> <<6710886, 429496730>>         \* 0x1.999999999999ap-4
      [] t = 2 -> <<13421772, 858993460>>        \* 0x1.999999999999ap-3
      [] t = 3 -> <<20132659, 214748364>>        \* 0x1.3333333333333p-2
      [] t = 4 -> <<26843545, 644245096>>        \* 0x1.999999999999ap-2
      [] t = 5 -> <<33554432, 0>>                \* 0x1.0000000000000p-1
      [] t = 6 -> <<40265318, 429496728>>        \* 0x1.3333333333333p-1
      [] t = 7 -> <<46976204, 858993456>>        \* 0x1.6666666666666p-1
      [] t = 8 -> <<53687091, 214748368>>        \* 0x1.999999999999ap-1
      [] t = 9 -> <<60397977, 644245096>>        \* 0x1.ccccccccccccdp-1
      [] t = 10 -> <<67108864, 0>>               \* 0x1.0000000000000p+0

\* a + b and a - b (a >= b) of the values, before any rounding
Plus(a, b) == <<a[1] + b[1] + (a[2] + b[2]) \div Limb, (a[2] + b[2]) % Limb>>
Minus(a, b) ==
    IF a[2] >= b[2] THEN <<a[1] - b[1], a[2] - b[2]>>
    ELSE <<a[1] - b[1] - 1, a[2] - b[2] + Limb>>

\* a <= b and a > b of the values
LessEq(a, b) == a[1] < b[1] \/ (a[1] = b[1] /\ a[2] <= b[2])
Above(a, b) == ~LessEq(a, b)

\* the gap between the doubles around a value below 16.0, in units of
\* 2^-56: 53 significant bits, so 1 below 0.125 = <<2^23, 0>> and doubling
\* with every power of two from there on
Ulp(v) ==
    IF v[1] < 2^23 THEN 1
    ELSE IF v[1] < 2^24 THEN 2
    ELSE IF v[1] < 2^25 THEN 4
    ELSE IF v[1] < 2^26 THEN 8
    ELSE IF v[1] < 2^27 THEN 16
    ELSE IF v[1] < 2^28 THEN 32
    ELSE IF v[1] < 2^29 THEN 64
    ELSE 128

\* the double nearest to a value, ties to the even one
RoundDouble(v) ==
    LET u == Ulp(v)
        r == v[2] % u
        down == <<v[1], v[2] - r>>
        up == Plus(down, <<0, u>>)
    IN  IF 2 * r < u THEN down
        ELSE IF 2 * r > u THEN up
        ELSE IF (v[2] \div u) % 2 = 0 THEN down ELSE up

\* a + b and a - b of two doubles, as the machine computes them
FloatAdd(a, b) == RoundDouble(Plus(a, b))
FloatSub(a, b) == RoundDouble(Minus(a, b))

PlainPool == {"xgb", "svm"}
NNPool == {"lstm", "gru"}
Pool == PlainPool \cup NNPool

\* the outcome of a call
Returned(v) == [kind |-> "return", val |-> v]
Raised(e) == [kind |-> "raise", val |-> e]
NoCall == [kind |-> "none", val |-> "none"]

\* all sequences over S of length at most n
SeqsUpTo(S, n) == UNION {[1..k -> S] : k \in 0..n}

\* column names: name + '_pred', name + '_up', ...
Col(name, suffix) == name \o suffix

\* the variables a specification does not use keep these values
VoteIdle == row = <<>> /\ weight = "none"
NamesIdle == plain_names = <<>> /\ nn_names = <<>>
EvalIdle ==
    /\ df = <<>> /\ seq_len = 0 /\ artifacts = <<>> /\ plain_perm = <<>> /\ nn_perm = <<>>
    /\ plain_result = <<>> /\ result = <<>> /\ windowed = <<>>
FutureIdle == models = <<>> /\ label_type = "none" /\ future_period = 0
JsonIdle == json = <<>> /\ saved = <<>> /\ asked = "none"

-----------------------------------------------------------------------------
(* vote, tbond_predict.py 43-68 *)

\* what a model adds to the soft score: row[name + '_up'], a double
SoftAddendPred(r, name) == IF r[Col(name, "_pred")] = 1 THEN Literal(One) ELSE Literal(0)

SoftAddend(r, name) == r[Col(name, "_up")]

\* score = 0 before the loop: the integer 0 of a hard score, which counts
\* models, and the double 0.0 that 0 + row[name + '_up'] makes of it
Score0(w) == IF w = "soft" THEN Literal(0) ELSE 0

\* the for loop of vote from position i on, with the score so far, an
\* integer when hard and a double when soft; the loop raises at the first
\* name when the weight is neither hard nor soft
RECURSIVE VoteLoop(_, _, _, _, _)
VoteLoop(r, names, w, i, score) ==
    IF i > Len(names) THEN Returned(score)
    ELSE IF w = "hard" THEN VoteLoop(r, names, w, i + 1, score + r[Col(names[i], "_pred")])
    ELSE IF w = "soft"
    THEN VoteLoop(r, names, w, i + 1, FloatAdd(score, SoftAddend(r, names[i])))
    ELSE Raised("NotImplementedError")

\* threshold = len(names) / 2 as a double: a multiple of 0.5 = <<2^25, 0>>
Threshold(names) == <<Len(names) * 2^25, 0>>

\* score <= threshold
AtMostThresholdStrict(score, names, w) ==
    IF w = "soft" THEN LessEq(score, Threshold(names)) /\ score # Threshold(names)
    ELSE 2 * score < Len(names)

AtMostThreshold(score, names, w) ==
    IF w = "soft" THEN LessEq(score, Threshold(names)) ELSE 2 * score <= Len(names)

vote(r, pn, nn, w) ==
    LET names == pn \o nn
        loop == VoteLoop(r, names, w, 1, Score0(w))
    IN  IF loop.kind = "raise" THEN loop
        ELSE IF AtMostThreshold(loop.val, names, w) THEN Returned(0) ELSE Returned(1)

\* the (pred, up) pairs a row holds for one model, up in tenths
RowVals == {<<0, 3>>, <<0, 4>>, <<0, 5>>, <<1, 6>>, <<1, 7>>, <<1, 8>>}

RowCols == {Col(n, s) : n \in Pool, s \in {"_pred", "_up"}}

\* the row whose columns hold f[name] = (pred, up) for every name
MkRow(f) ==
    [c \in RowCols |->
        LET n == CHOOSE m \in Pool : c \in {Col(m, "_pred"), Col(m, "_up")}
        IN  IF c = Col(n, "_pred") THEN f[n][1] ELSE Literal(f[n][2])]

Weights == {"hard", "soft", "median"}

InitVote ==
    /\ op = "none"
    /\ \E f \in [Pool -> RowVals] : row = MkRow(f)
    /\ weight \in Weights
    /\ plain_names \in SeqsUpTo(PlainPool, MaxNames)
    /\ nn_names \in SeqsUpTo(NNPool, MaxNames)
    /\ EvalIdle /\ FutureIdle /\ JsonIdle
    /\ logged = <<>>
    /\ ret = NoCall

Vote ==
    /\ op = "none"
    /\ op' = "vote"
    /\ ret' = vote(row, plain_names, nn_names, weight)
    /\ UNCHANGED <<voteVars, nameVars, evalVars, futureVars, jsonVars, plain_result, result, windowed, logged>>

NextVote == Vote

SpecVote == InitVote /\ [][NextVote]_vars

-----------------------------------------------------------------------------
(* The evaluation frame and the stored models *)

\* the date of the i-th row: dates are unique
DateOf(i) == IF i < 10 THEN "2021-09-0" \o ToString(i) ELSE "2021-09-" \o ToString(i)

\* the frame with the labels y: a date, one engineered feature and the label
Frame(y) == [i \in DOMAIN y |-> [date |-> DateOf(i), feat |-> i % 2, target |-> y[i]]]

\* the frames of n rows
Frames(n) == {Frame(y) : y \in [1..n -> {0, 1}]}

\* the value None
None == [none |-> TRUE]

\* ModelAttr(name, features, labels, scaled_feats, stats), as the tests
\* build it for a model with scaled features
ModelAttr(name, features, labels, scaled_feats, stats) ==
    [name |-> name, features |-> features, labels |-> labels,
     scaled_feats |-> scaled_feats, stats |-> stats]

\* ModelAttr(name, features, labels): no scaled features and no statistics
ModelAttrPlain(name, features, labels) == ModelAttr(name, features, labels, None, None)

\* the metadata of the stored models. As in the tests, every model reads the
\* label column 'target'; a plain model is stored without scaling; the
\* sequential model lstm is stored with its scaled feature and the
\* statistics (mean, deviation) of it, gru with an empty list of them
StoredAttr(name) ==
    IF name = "lstm"
    THEN ModelAttr(name, <<"feat">>, <<"target">>, <<"feat">>, [f \in {"feat"} |-> <<1, 1>>])
    ELSE IF name = "gru"
    THEN ModelAttr(name, <<"feat">>, <<"target">>, <<>>, <<>>)
    ELSE ModelAttrPlain(name, <<"feat">>, <<"target">>)

\* how a stored plain model predicts from the feature of a row: two tree
\* models and a support vector machine
PlainKinds == {"up", "trend", "svc"}

\* whether the model has the attribute feature_importances_: trees only
HasImportances(kind) == kind \in {"up", "trend"}

\* model.predict(X) on one row
Predict(kind, feat) ==
    CASE kind = "up" -> 1
      [] kind = "trend" -> feat
      [] kind = "svc" -> 1 - feat
      [] kind = "multi" -> 2

\* model.predict_proba(X) on one row: <<down, up>>, two doubles; the ones
\* of a support vector machine need not agree with its predict
PredictProba(kind, feat) ==
    CASE kind = "up" -> <<Literal(3), Literal(7)>>
      [] kind = "trend" -> IF feat = 1 THEN <<Literal(4), Literal(6)>> ELSE <<Literal(6), Literal(4)>>
      [] kind = "svc" -> IF feat = 1 THEN <<Literal(4), Literal(6)>> ELSE <<Literal(3), Literal(7)>>
      [] kind = "multi" -> <<Literal(3), Literal(3)>>

\* how a stored sequential model predicts from a window of scaled features
NNKinds == {"nn_trend", "nn_even"}

\* model.predict(x) on one window: the up probability, a double
NNPredict(kind, window) ==
    LET last == window[Len(window)]
    IN  CASE kind = "nn_trend" -> IF last = 0 THEN Literal(6) ELSE Literal(4)
          [] kind = "nn_even" -> IF last = 0 THEN Literal(5) ELSE Literal(6)

\* lists of distinct names of S
InjSeqs(S) ==
    {s \in SeqsUpTo(S, Cardinality(S)) : \A i, j \in DOMAIN s : s[i] = s[j] => i = j}

\* the orders in which n things can be iterated
Perms(n) == {p \in [1..n -> 1..n] : \A i, j \in 1..n : p[i] = p[j] => i = j}

\* the names of a list
Range(s) == {s[i] : i \in DOMAIN s}

\* the (ModelAttr, model) pairs of the names, iterated in the order perm:
\* the order of the mapping is the registry's, not the caller's
load_models(names, perm) ==
    [i \in DOMAIN names |->
        [attr |-> StoredAttr(names[perm[i]]), model |-> artifacts[names[perm[i]]]]]

\* JsonModel.load_plain_models(names)
load_plain_models(names) == load_models(names, plain_perm)

\* JsonModel.load_nn_models(names)
load_nn_models(names) == load_models(names, nn_perm)

-----------------------------------------------------------------------------
(* Tables: columns in order, an index, and the cells of every column *)

\* F applied to the value of v, v being evaluated once
Bind(v, F(_)) == CHOOSE r \in {F(x) : x \in {v}} : TRUE

Table(columns, index, data) == [columns |-> columns, index |-> index, data |-> data]

\* df.insert(len(df.columns), column, value) and df[column] = value for a new column
WithColumn(t, column, value) ==
    Bind(t, LAMBDA tt :
        Table(Append(tt.columns, column), tt.index,
              [c \in DOMAIN tt.data \cup {column} |-> IF c = column THEN value ELSE tt.data[c]]))

\* df[col_names]
Select(t, col_names) ==
    Bind(t, LAMBDA tt :
        Bind(col_names, LAMBDA cols :
            Table(cols, tt.index, [c \in Range(cols) |-> tt.data[c]])))

\* the sub-sequence of s at the positions of the ascending sequence pos
Take(s, pos) == [j \in DOMAIN pos |-> s[pos[j]]]

\* the positions of s, ascending, whose element is one of values
IsinPositions(s, values) ==
    Bind({i \in DOMAIN s : s[i] \in Range(values)}, LAMBDA hit :
        [j \in 1..Cardinality(hit) |->
            CHOOSE i \in hit : Cardinality({k \in hit : k < i}) = j - 1])

\* df[df.date.isin(dates)]
RowsIsin(t, dates) ==
    Bind(t, LAMBDA tt :
        Bind(IsinPositions(tt.data["date"], dates), LAMBDA pos :
            Table(tt.columns, Take(tt.index, pos),
                  [c \in DOMAIN tt.data |-> Take(tt.data[c], pos)])))

\* df.set_index('date')
SetIndexDate(t) ==
    Bind(t, LAMBDA tt :
        Bind(SelectSeq(tt.columns, LAMBDA c : c # "date"), LAMBDA rest :
            Table(rest, tt.data["date"], [c \in Range(rest) |-> tt.data[c]])))

\* the row of a table at position i, as apply(..., axis=1) hands it out
RowAt(t, i) == [c \in DOMAIN t.data |-> t.data[c][i]]

\* s[k:]
SliceFrom(s, k) == SubSeq(s, k + 1, Len(s))

\* a column of the frame
Column(frame, field) == [i \in DOMAIN frame |-> frame[i][field]]

\* the sum of a column of integers
RECURSIVE SumSeq(_)
SumSeq(s) == IF s = <<>> THEN 0 ELSE Head(s) + SumSeq(Tail(s))

\* the sum of the first k cells of a column of doubles, added one by one from 0.0
RECURSIVE FloatSum(_, _)
FloatSum(s, k) == IF k = 0 THEN Literal(0) ELSE FloatAdd(FloatSum(s, k - 1), s[k])

\* 'Right' if pred == actual else 'Wrong'
RightWrongAlwaysUp(pred, actual) == IF actual = 1 THEN "Right" ELSE "Wrong"

RightWrong(pred, actual) == IF pred = actual THEN "Right" ELSE "Wrong"

\* df[name] = df.apply(lambda x: 'Right' if x[name_pred] == x[name_actual] else 'Wrong', axis=1)
WithFlags(t, name, pred_column, actual_column) ==
    Bind(t, LAMBDA tt :
        WithColumn(tt, name,
            [i \in DOMAIN tt.index |->
                RightWrong(RowAt(tt, i)[pred_column], RowAt(tt, i)[actual_column])]))

\* the columns of one model in the returned tables
Block(name) ==
    <<name, Col(name, "_pred"), Col(name, "_actual"), Col(name, "_down"), Col(name, "_up")>>

RECURSIVE Blocks(_)
Blocks(names) == IF names = <<>> THEN <<>> ELSE Block(Head(names)) \o Blocks(Tail(names))

-----------------------------------------------------------------------------
(* eval_plain_models, tbond_predict.py 71-118 *)

\* model.score(X, y): the mean accuracy of model.predict(X) against y, as
\* <<rows predicted right, rows>>
score(model, X, y) ==
    <<Cardinality({i \in DOMAIN X : Predict(model, X[i]) = y[i]}), Len(X)>>

\* part in name, for the names of the pools
Mentions(name, part) == \E before, after \in {"", "s", "vm"} : name = before \o part \o after

\* 'xgb' in name or 'rfc' in name: the feature importances are read
ReadsImportances(name) == Mentions(name, "xgb") \/ Mentions(name, "rfc")

\* the body of the loop over the models, for one model: the columns it adds
PlainBody(t, m, engineered_df) ==
    LET name == m.attr.name
        X == Column(engineered_df, m.attr.features[1])
        y == Column(engineered_df, m.attr.labels[1])
        test_pred == [i \in DOMAIN X |-> Predict(m.model, X[i])]
        probs == [i \in DOMAIN X |-> PredictProba(m.model, X[i])]
        t1 == WithColumn(t, Col(name, "_pred"), test_pred)
        t2 == WithColumn(t1, Col(name, "_actual"), y)
        t3 == WithFlags(t2, name, Col(name, "_pred"), Col(name, "_actual"))
        t4 == WithColumn(t3, Col(name, "_down"), [i \in DOMAIN X |-> probs[i][1]])
    IN  WithColumn(t4, Col(name, "_up"), [i \in DOMAIN X |-> probs[i][2]])

\* the test score the body logs for one model
PlainScore(m, engineered_df) ==
    [k \in {m.attr.name} |->
        score(m.model, Column(engineered_df, m.attr.features[1]),
              Column(engineered_df, m.attr.labels[1]))]

\* how a loop over models stands: the table, the names gone through, the
\* test scores logged, the windows asked for, and whether it goes on
\* (a returned value) or has raised
Loop(t, names, log, calls, out) ==
    [table |-> t, names |-> names, log |-> log, calls |-> calls, out |-> out]

\* two logs in one
Merged(f, g) == [k \in DOMAIN f \cup DOMAIN g |-> IF k \in DOMAIN f THEN f[k] ELSE g[k]]

\* the loop over the models from model i on; reading feature_importances_
\* of a model that has none raises AttributeError before the model is scored
RECURSIVE PlainLoop(_, _, _, _, _, _)
PlainLoop(t, loaded, i, engineered_df, names, log) ==
    IF i > Len(loaded) THEN Loop(t, names, log, <<>>, Returned(t))
    ELSE IF ReadsImportances(loaded[i].attr.name) /\ ~HasImportances(loaded[i].model)
    THEN Loop(t, names, log, <<>>, Raised("AttributeError"))
    ELSE Bind(PlainBody(t, loaded[i], engineered_df), LAMBDA next :
             PlainLoop(next, loaded, i + 1, engineered_df,
                       Append(names, loaded[i].attr.name),
                       Merged(log, PlainScore(loaded[i], engineered_df))))

\* the table eval_plain_models returns, or the exception, with the scores logged
eval_plain_models(names, engineered_df) ==
    Bind(PlainLoop(Table(<<"date">>, [i \in DOMAIN engineered_df |-> i - 1],
                         [c \in {"date"} |-> Column(engineered_df, "date")]),
                   load_plain_models(names), 1, engineered_df, <<>>, <<>>),
         LAMBDA loop :
             IF loop.out.kind = "raise" THEN loop
             ELSE Loop(loop.table, loop.names, loop.log, <<>>,
                       Returned(Select(loop.table, <<"date">> \o Blocks(loop.names)))))

-----------------------------------------------------------------------------
(* eval_models, tbond_predict.py 121-200 *)

\* tbond_nn_predata.scale(df, scaled_feats, stats)[0]: a copy of the frame
\* in which every scaled feature is (value - mean) / deviation; the frame
\* itself is left as it is
scale(frame, scaled_feats, stats) ==
    [i \in DOMAIN frame |->
        [c \in DOMAIN frame[i] |->
            IF c \in Range(scaled_feats)
            THEN (frame[i][c] - stats[c][1]) \div stats[c][2]
            ELSE frame[i][c]]]

\* tbond_nn_predata.gen_pred_x(scaled_df, today, features, seq_len): the
\* window of the seq_len rows that ends at the row of today
gen_pred_x(scaled_df, today, features, len) ==
    LET p == CHOOSE i \in DOMAIN scaled_df : scaled_df[i].date = today
    IN  [j \in 1..len |-> scaled_df[p - len + j][features[1]]]

\* model.evaluate(x, y)[1]: the accuracy of the model on the windows x
\* against the labels y, a window counting as class 1 when the model gives
\* it an up probability above 0.5; as <<windows predicted right, windows>>
evaluate(model, x, y) ==
    <<Cardinality({j \in DOMAIN x :
          (Above(NNPredict(model, x[j]), Literal(Half)) /\ y[j] = 1)
              \/ (LessEq(NNPredict(model, x[j]), Literal(Half)) /\ y[j] = 0)}),
      Len(x)>>

\* dates = dates[seq_len:], the dates the sequential models are scored on
ScoredDatesShort(dates, len) == SliceFrom(dates, len + 1)

ScoredDates(dates, len) == SliceFrom(dates, len)

\* y = y[seq_len:], the labels set beside the predictions
ScoredLabelsHead(y, len) == SubSeq(y, 1, Len(y) - len)

ScoredLabels(y, len) == SliceFrom(y, len)

\* preds = (probs > 0.5).astype(int)
DirectionAtLeast(prob) == IF LessEq(Literal(Half), prob) THEN 1 ELSE 0

Direction(prob) == IF Above(prob, Literal(Half)) THEN 1 ELSE 0

\* x of one model: the window of every scored date, cut from the scaled frame
Windows(m, frame, dates, len) ==
    Bind(scale(frame, m.attr.scaled_feats, m.attr.stats), LAMBDA scaled_df :
        [j \in DOMAIN dates |-> gen_pred_x(scaled_df, dates[j], m.attr.features, len)])

\* the columns the body of the loop adds for one model with the windows x
NNBody(t, m, frame, x, len) ==
    LET name == m.attr.name
        y == ScoredLabels(Column(frame, m.attr.labels[1]), len)
        probs == [j \in DOMAIN x |-> NNPredict(m.model, x[j])]
        preds == [j \in DOMAIN probs |-> Direction(probs[j])]
        t1 == WithColumn(t, Col(name, "_pred"), preds)
        t2 == WithColumn(t1, Col(name, "_actual"), y)
        t3 == WithFlags(t2, name, Col(name, "_pred"), Col(name, "_actual"))
        t4 == WithColumn(t3, Col(name, "_down"),
                         [j \in DOMAIN probs |-> FloatSub(Literal(One), probs[j])])
    IN  WithColumn(t4, Col(name, "_up"), probs)

\* the accuracy the body logs for one model with the windows x
NNScore(m, frame, x, len) ==
    [k \in {m.attr.name} |->
        evaluate(m.model, x, ScoredLabels(Column(frame, m.attr.labels[1]), len))]

\* the calls of gen_pred_x for one model: today and the window returned
NNCalls(m, dates, x) ==
    [k \in {m.attr.name} |-> [j \in DOMAIN dates |-> [today |-> dates[j], window |-> x[j]]]]

\* the loop over the sequential models from model i on. For every model
\* the windows are cut, the accuracy is logged, and then result.insert
\* raises ValueError when the table has not one row for every prediction
RECURSIVE NNLoop(_, _, _, _, _, _, _, _, _)
NNLoop(t, loaded, i, frame, dates, len, names, log, calls) ==
    IF i > Len(loaded) THEN Loop(t, names, log, calls, Returned(t))
    ELSE Bind(Windows(loaded[i], frame, dates, len), LAMBDA x :
             Bind(Merged(log, NNScore(loaded[i], frame, x, len)), LAMBDA scored :
                 Bind(Merged(calls, NNCalls(loaded[i], dates, x)), LAMBDA asked_for :
                     IF Len(x) # Len(t.index)
                     THEN Loop(t, Append(names, loaded[i].attr.name), scored, asked_for,
                               Raised("ValueError"))
                     ELSE Bind(NNBody(t, loaded[i], frame, x, len), LAMBDA next :
                              NNLoop(next, loaded, i + 1, frame, dates, len,
                                     Append(names, loaded[i].attr.name), scored, asked_for)))))

\* result['hard_pred'], result['soft_pred']: the vote of every row
WithVotes(t, pn, nn) ==
    Bind(t, LAMBDA tt :
        Bind(WithColumn(tt, "hard_pred",
                 [i \in DOMAIN tt.index |-> vote(RowAt(tt, i), pn, nn, "hard").val]),
             LAMBDA th :
                 WithColumn(th, "soft_pred",
                     [i \in DOMAIN th.index |-> vote(RowAt(th, i), pn, nn, "soft").val])))

\* result['actual'] = plain_result[plain_names[0] + '_actual'], aligned on the index
WithActual(result_t, plain_t, pn) ==
    Bind(result_t, LAMBDA r :
        Bind(plain_t, LAMBDA p :
            WithColumn(r, "actual",
                [i \in DOMAIN r.index |->
                    p.data[Col(pn[1], "_actual")][CHOOSE k \in DOMAIN p.index :
                                                     p.index[k] = r.index[i]]])))

\* hard_hit / len(result), soft_hit / len(result), as <<hits, rows>>
vote_acc(t, pred_column) ==
    Bind(t, LAMBDA tt :
        <<Cardinality({i \in DOMAIN tt.index : RowAt(tt, i)[pred_column] = RowAt(tt, i)["actual"]}),
          Len(tt.index)>>)

\* the columns of text, which mean(numeric_only=True) leaves out
IsFlagColumn(c) == c \in {"hard", "soft"} \cup Pool

\* the columns of probabilities, which hold doubles
IsProbColumn(c) == \E n \in Pool : c \in {Col(n, "_down"), Col(n, "_up")}

\* history_result.loc['average'] = history_result.mean(numeric_only=True);
\* a mean is kept as <<sum, rows>>, the sum an integer or a double as the column is
WithAverage(t) ==
    Bind(t, LAMBDA tt :
        Table(tt.columns, Append(tt.index, "average"),
              [c \in DOMAIN tt.data |->
                  Append(tt.data[c],
                         IF IsFlagColumn(c) THEN "NaN"
                         ELSE IF IsProbColumn(c)
                         THEN <<FloatSum(tt.data[c], Len(tt.data[c])), Len(tt.data[c])>>
                         ELSE <<SumSeq(tt.data[c]), Len(tt.data[c])>>)]))

\* col_names with 'hard', 'soft', 'hard_pred', 'soft_pred', 'actual' inserted at 0..4
ReportColumns(plain_columns, names) ==
    <<"hard", "soft", "hard_pred", "soft_pred", "actual">> \o plain_columns \o Blocks(names)

\* one way eval_models ends: its tables plain_result and result, what it
\* has logged, the windows it has asked for, and the report it returns or
\* the exception it raises
Ended(plain_t, result_t, log, calls, out) ==
    [plain_result |-> plain_t, result |-> result_t, log |-> log, calls |-> calls, out |-> out]

\* lines 174-200, from the tables indexed by date on; names are those of
\* the sequential models in the order of the loop
Ensemble(pn, names, plain_t, voted, log, calls) ==
    IF pn = <<>> THEN Ended(plain_t, voted, log, calls, Raised("IndexError"))   \* plain_names[0]
    ELSE Bind(WithFlags(WithFlags(WithActual(voted, plain_t, pn),
                                  "hard", "hard_pred", "actual"),
                        "soft", "soft_pred", "actual"),
              LAMBDA r :
                  Ended(plain_t, r,
                        Merged(log, [k \in {"hard", "soft"} |-> vote_acc(r, Col(k, "_pred"))]),
                        calls,
                        Returned(WithAverage(Select(r, ReportColumns(plain_t.columns, names))))))

\* lines 151-175, from the rows of the scored dates on
Scored(pn, nn, frame, len, plain_t, dates, selected, log) ==
    Bind(NNLoop(selected, load_nn_models(nn), 1, frame, dates, len, <<>>, log, <<>>),
         LAMBDA loop :
             IF loop.out.kind = "raise"
             THEN Ended(plain_t, loop.table, loop.log, loop.calls, loop.out)
             ELSE Bind(SetIndexDate(plain_t), LAMBDA indexed :
                      Bind(SetIndexDate(WithVotes(loop.table, pn, nn)), LAMBDA voted :
                          Ensemble(pn, loop.names, indexed, voted, loop.log, loop.calls))))

\* eval_models; when eval_plain_models raises, no table has been assigned
eval_models(pn, nn, frame, len) ==
    Bind(eval_plain_models(pn, frame), LAMBDA plain :
        IF plain.out.kind = "raise" THEN Ended(<<>>, <<>>, plain.log, <<>>, plain.out)
        ELSE Bind(plain.out.val, LAMBDA plain_t :
                 Bind(ScoredDates(Take(Column(frame, "date"),
                                       IsinPositions(Column(frame, "date"),
                                                     plain_t.data["date"])), len),
                      LAMBDA dates :
                          Bind(RowsIsin(plain_t, dates), LAMBDA selected :
                              Scored(pn, nn, frame, len, plain_t, dates, selected, plain.log)))))

\* the frames of the two scenarios: five rows with the labels 1, 0, 1, 1, 0,
\* and twelve rows scored with a window of ten
ScenarioFrames ==
    {[frame |-> Frame(<<1, 0, 1, 1, 0>>), len |-> 1],
     [frame |-> Frame(<<1, 0, 1, 1, 0, 0, 1, 0, 1, 1, 0, 1>>), len |-> 10]}

\* a frame has unique dates, and the window leaves at least one date to
\* score; the registry iterates the models of a list in an order of its own
InitEval ==
    /\ op = "none"
    /\ VoteIdle /\ FutureIdle /\ JsonIdle
    /\ plain_names \in InjSeqs(PlainPool)
    /\ nn_names \in InjSeqs(NNPool)
    /\ plain_perm \in Perms(Len(plain_names))
    /\ nn_perm \in Perms(Len(nn_names))
    /\ \/ \E n \in 2..MaxRows :
             /\ df \in Frames(n)
             /\ seq_len \in 1..(n - 1)
       \/ \E sc \in ScenarioFrames :
             /\ df = sc.frame
             /\ seq_len = sc.len
    /\ \E pk \in [Range(plain_names) -> PlainKinds], nk \in [Range(nn_names) -> NNKinds] :
          artifacts = [k \in Range(plain_names) \cup Range(nn_names) |->
                          IF k \in Range(plain_names) THEN pk[k] ELSE nk[k]]
    /\ plain_result = <<>>
    /\ result = <<>>
    /\ windowed = <<>>
    /\ logged = <<>>
    /\ ret = NoCall

EvalPlainModels ==
    /\ op = "none"
    /\ op' = "eval_plain_models"
    /\ \E end \in {eval_plain_models(plain_names, df)} :
          /\ logged' = end.log
          /\ ret' = end.out
    /\ UNCHANGED <<voteVars, nameVars, evalVars, futureVars, jsonVars, plain_result, result, windowed>>

EvalModels ==
    /\ op = "none"
    /\ op' = "eval_models"
    /\ \E end \in {eval_models(plain_names, nn_names, df, seq_len)} :
          /\ plain_result' = end.plain_result
          /\ result' = end.result
          /\ windowed' = end.calls
          /\ logged' = end.log
          /\ ret' = end.out
    /\ UNCHANGED <<voteVars, nameVars, evalVars, futureVars, jsonVars>>

Init == InitEval

Next == EvalPlainModels \/ EvalModels

Spec == Init /\ [][Next]_vars

-----------------------------------------------------------------------------
(* pred_future, tbond_predict.py 203-252 *)

\* the frame tbond_process_data.feature_engineering(df, ..., dropna=False)
\* makes: its features, and no label yet in the last future_period rows
Engineered(frame, period) ==
    [i \in DOMAIN frame |->
        [frame[i] EXCEPT !.target = IF i > Len(frame) - period THEN "nan" ELSE @]]

\* the outcomes of tbond_process_data.feature_engineering: for the label
\* types 'fwd' and 'avg' the frame; for any other label type, which its
\* interface does not cover, either the frame or an exception of its own
feature_engineering(frame, period, rule) ==
    IF rule \in {"fwd", "avg"} THEN {Returned(Engineered(frame, period))}
    ELSE {Returned(Engineered(frame, period)), Raised("Exception")}

LabelTypes == {"fwd", "avg", "max"}

\* the fitted models: the plain ones and one that knows a third class
FutureKinds == PlainKinds \cup {"multi"}

\* the body of the loop for one model: the statement it logs, or the exception
FutureBody(model, last_x, period, rule) ==
    LET pred == <<Predict(model, last_x)>>
    IN  IF pred[1] = 0
        THEN IF rule \in {"fwd", "avg"}
             THEN Returned([rule |-> rule, period |-> period, direction |-> "down"])
             ELSE Raised("NotImplementedError")
        ELSE IF pred[1] = 1
        THEN IF rule \in {"fwd", "avg"}
             THEN Returned([rule |-> rule, period |-> period, direction |-> "up"])
             ELSE Raised("NotImplementedError")
        ELSE Returned([rule |-> rule, period |-> period, direction |-> "unknown"])

\* the loop from model i on: the outcome with the predictions, the
\* probabilities and the statements so far
RECURSIVE FutureLoop(_, _, _, _, _, _, _, _)
FutureLoop(ms, i, last_x, period, rule, preds, probas, log) ==
    IF i > Len(ms) THEN [out |-> Returned(<<preds, probas>>), log |-> log]
    ELSE LET step == FutureBody(ms[i], last_x, period, rule)
         IN  IF step.kind = "raise" THEN [out |-> step, log |-> log]
             ELSE FutureLoop(ms, i + 1, last_x, period, rule,
                             Append(preds, <<Predict(ms[i], last_x)>>),
                             Append(probas, <<PredictProba(ms[i], last_x)>>),
                             Append(log, step.val))

\* pred_future from the outcome of feature_engineering on
pred_future(ms, engineered, period, rule) ==
    IF engineered.kind = "raise" THEN [out |-> engineered, log |-> <<>>]
    ELSE FutureLoop(ms, 1, engineered.val[Len(engineered.val)].feat, period, rule,
                    <<>>, <<>>, <<>>)

InitFuture ==
    /\ op = "none"
    /\ VoteIdle /\ NamesIdle /\ JsonIdle
    /\ seq_len = 0
    /\ artifacts = <<>>
    /\ plain_perm = <<>>
    /\ nn_perm = <<>>
    /\ plain_result = <<>>
    /\ result = <<>>
    /\ windowed = <<>>
    /\ \E n \in 1..MaxRows : df \in Frames(n)
    /\ models \in SeqsUpTo(FutureKinds, MaxModels)
    /\ label_type \in LabelTypes
    /\ future_period \in {1, 5}
    /\ logged = <<>>
    /\ ret = NoCall

PredFuture ==
    /\ op = "none"
    /\ op' = "pred_future"
    /\ \E engineered \in feature_engineering(df, future_period, label_type) :
          /\ ret' = pred_future(models, engineered, future_period, label_type).out
          /\ logged' = pred_future(models, engineered, future_period, label_type).log
    /\ UNCHANGED <<voteVars, nameVars, evalVars, futureVars, jsonVars, plain_result, result, windowed>>

NextFuture == PredFuture

SpecFuture == InitFuture /\ [][NextFuture]_vars

-----------------------------------------------------------------------------
(* JsonModel.save_attr and JsonModel.load_attr, as tests/test_utils.py uses them *)

\* the names the tests save, and one they never save
SavedNames == {"xgb", "rfc", "lstm"}
AskedNames == SavedNames \cup {"Non-Exists"}

FeatureLists == {<<"close", "pct_chg">>, <<"close", "amount", "t10y">>}

\* the scaled features and their statistics (mean, deviation) a model may be
\* saved with; every list of features holds 'close'
Scalings == {[scaled_feats |-> <<"close">>, stats |-> [f \in {"close"} |-> <<3, 1>>]],
             [scaled_feats |-> <<"close">>, stats |-> [f \in {"close"} |-> <<2, 1>>]]}

\* the position of the entry of a name, 0 when there is none
EntryOf(entries, name) ==
    IF \E i \in DOMAIN entries : entries[i].name = name
    THEN CHOOSE i \in DOMAIN entries : entries[i].name = name
    ELSE 0

\* JsonModel.save_attr(attr): the entry of the name is written, replacing an earlier one
save_attr(entries, attr) ==
    IF EntryOf(entries, attr.name) = 0 THEN Append(entries, attr)
    ELSE [entries EXCEPT ![EntryOf(entries, attr.name)] = attr]

\* JsonModel.load_attr(name): the metadata of the name, None when there is none
load_attr_raising(entries, name) ==
    IF EntryOf(entries, name) = 0 THEN Raised("KeyError")
    ELSE Returned(entries[EntryOf(entries, name)])

load_attr(entries, name) ==
    IF EntryOf(entries, name) = 0 THEN Returned(None)
    ELSE Returned(entries[EntryOf(entries, name)])

InitJson ==
    /\ op = "none"
    /\ VoteIdle /\ NamesIdle /\ EvalIdle /\ FutureIdle
    /\ json = <<>>
    /\ saved = [n \in AskedNames |-> None]
    /\ asked = "none"
    /\ logged = <<>>
    /\ ret = NoCall

SaveAttr ==
    /\ \E n \in SavedNames, f \in FeatureLists :
          \/ LET attr == ModelAttrPlain(n, f, <<"target">>)
             IN  /\ json' = save_attr(json, attr)
                 /\ saved' = [saved EXCEPT ![n] = attr]
          \/ \E sc \in Scalings :
                LET attr == ModelAttr(n, f, <<"target">>, sc.scaled_feats, sc.stats)
                IN  /\ json' = save_attr(json, attr)
                    /\ saved' = [saved EXCEPT ![n] = attr]
    /\ op' = "save_attr"
    /\ ret' = Returned(None)
    /\ UNCHANGED <<voteVars, nameVars, evalVars, futureVars, asked, plain_result, result, windowed, logged>>

LoadAttr ==
    /\ \E n \in AskedNames :
          /\ asked' = n
          /\ ret' = load_attr(json, n)
    /\ op' = "load_attr"
    /\ UNCHANGED <<voteVars, nameVars, evalVars, futureVars, json, saved, plain_result, result, windowed, logged>>

NextJson == SaveAttr \/ LoadAttr

SpecJson == InitJson /\ [][NextJson]_vars

-----------------------------------------------------------------------------
(* Properties of vote, checked under SpecVote *)

\* the list of names vote walks through
VoteNames == plain_names \o nn_names

\* the positions of the list whose model predicts 1
VotedUp == {i \in DOMAIN VoteNames : row[Col(VoteNames[i], "_pred")] = 1}

\* the up probabilities of the list, in its order
Ups == [i \in DOMAIN VoteNames |-> row[Col(VoteNames[i], "_up")]]

\* the sum of the first k up probabilities as a number, nothing rounded
RECURSIVE UpTotal(_)
UpTotal(k) == IF k = 0 THEN <<0, 0>> ELSE Plus(UpTotal(k - 1), Ups[k])

\* count(models) / 2 as a number
HalfCount == <<Len(VoteNames) * 2^25, 0>>

\* C1: hard voting returns 1 when strictly more than half of the listed
\* models predict 1 and 0 otherwise; exactly half predicting 1 gives 0.
C1_HardMajority ==
    (op = "vote" /\ weight = "hard") =>
        /\ ret.kind = "return"
        /\ ret.val = IF 2 * Cardinality(VotedUp) > Len(VoteNames) THEN 1 ELSE 0

\* C1 witness: two models, exactly one of them predicts 1, the vote is 0
C1_Witness ==
    /\ op = "vote" /\ weight = "hard"
    /\ Len(VoteNames) = 2 /\ Cardinality(VotedUp) = 1
    /\ ret = Returned(0)

\* C2 as stated: soft voting returns 1 iff the sum of the up probabilities
\* of the listed models is strictly greater than count(models) / 2, and 0
\* otherwise; the sum is the number the probabilities add up to, whatever
\* the order of the list.
C2_SoftThreshold ==
    (op = "vote" /\ weight = "soft") =>
        /\ ret.kind = "return"
        /\ ret.val = IF Above(UpTotal(Len(VoteNames)), HalfCount) THEN 1 ELSE 0

\* C2 amended: soft voting returns 1 iff the double-precision sum of the up
\* probabilities, added to 0 one by one in the order of the list and rounded
\* after every addition, is strictly greater than count(models) / 2, and 0
\* otherwise (a rounded sum equal to the threshold gives 0).
C2_SoftRoundedThreshold ==
    (op = "vote" /\ weight = "soft") =>
        /\ ret.kind = "return"
        /\ ret.val = IF Above(FloatSum(Ups, Len(VoteNames)), HalfCount) THEN 1 ELSE 0

\* C2 witness: the up probabilities 0.3, 0.4, 0.8 in this order round to
\* the threshold 1.5 and give 0, though they add up to more than 1.5
C2_Witness ==
    /\ op = "vote" /\ weight = "soft"
    /\ Ups = <<Literal(3), Literal(4), Literal(8)>>
    /\ Above(UpTotal(3), HalfCount)
    /\ ret = Returned(0)

\* C3: for every weighting mode other than hard and soft, and every list of
\* names, the empty list included, vote fails with the unsupported-weighting
\* error and returns nothing.
C3_UnsupportedWeightFails ==
    (op = "vote" /\ weight \notin {"hard", "soft"}) =>
        (ret.kind = "raise" /\ ret.val = "NotImplementedError")

-----------------------------------------------------------------------------
(* Properties of eval_models and eval_plain_models, checked under Spec *)

\* the report eval_models has returned
Reported == op = "eval_models" /\ ret.kind = "return"

\* the number of data rows of the report: all rows but the last
DataRows == 1..(Len(ret.val.index) - 1)

\* the row of the frame with the date d
FrameRow(d) == df[CHOOSE i \in DOMAIN df : df[i].date = d]

\* the position of the date d in the plain results
PlainRow(d) == CHOOSE k \in DOMAIN plain_result.index : plain_result.index[k] = d

\* the dates of the frame after the first seq_len
DatesAfterWindow == [j \in 1..(Len(df) - seq_len) |-> df[seq_len + j].date]

\* C4: with n uniquely dated rows and the window seq_len, the report has
\* n - seq_len data rows, those of the dates of the frame after the first
\* seq_len, and then the row 'average' as its last row; every column is on
\* these rows; the plain results of a row are those eval_plain_models gave
\* for its date; and every sequential model was asked for the window of
\* exactly these dates, the probability of a row being the one of the
\* window of its date.
C4_ReportRows ==
    Reported =>
        LET t == ret.val
            rows == Len(df) - seq_len
        IN  /\ t.index = Append(DatesAfterWindow, "average")
            /\ \A c \in Range(t.columns) : Len(t.data[c]) = rows + 1
            /\ \A j \in 1..rows : \A p \in Range(plain_names) :
                  \A s \in {"_pred", "_actual", "_down", "_up"} :
                      t.data[Col(p, s)][j] = plain_result.data[Col(p, s)][PlainRow(t.index[j])]
            /\ DOMAIN windowed = Range(nn_names)
            /\ \A q \in Range(nn_names) :
                  /\ [j \in DOMAIN windowed[q] |-> windowed[q][j].today] = DatesAfterWindow
                  /\ \A j \in 1..rows :
                        t.data[Col(q, "_up")][j] = NNPredict(artifacts[q], windowed[q][j].window)

\* C4 witness: twelve rows and a window of ten give two data rows and the average row
C4_Witness ==
    /\ Reported
    /\ Len(df) = 12 /\ seq_len = 10
    /\ nn_names # <<>>
    /\ ret.val.index = <<DateOf(11), DateOf(12), "average">>

\* the suffixes of the five columns of a model, in the order of its block
BlockSuffix == <<"", "_pred", "_actual", "_down", "_up">>

\* C5: for k plain and m sequential models the report has exactly
\* 5 + 5k + 5m columns: hard, soft, hard_pred, soft_pred, actual, then a
\* block (flag, pred, actual, down, up) for every plain model and then for
\* every sequential model, in the order of the caller's lists of names.
C5_ReportColumns ==
    Reported =>
        LET t == ret.val
            names == plain_names \o nn_names
        IN  /\ Len(t.columns) = 5 + 5 * Len(plain_names) + 5 * Len(nn_names)
            /\ SubSeq(t.columns, 1, 5) = <<"hard", "soft", "hard_pred", "soft_pred", "actual">>
            /\ \A i \in DOMAIN names : \A b \in 1..5 :
                  t.columns[5 + 5 * (i - 1) + b] = Col(names[i], BlockSuffix[b])
            /\ DOMAIN t.data = Range(t.columns)
            /\ Cardinality(DOMAIN t.data) = Len(t.columns)

\* C6 as stated: in every row of every model of the report, plain or
\* sequential, the predicted class is 1 iff the up probability is above 0.5.
C6_DirectionOfEveryModel ==
    Reported =>
        \A n \in Range(plain_names) \cup Range(nn_names) : \A j \in DataRows :
            ret.val.data[Col(n, "_pred")][j] =
                IF Above(ret.val.data[Col(n, "_up")][j], Literal(Half)) THEN 1 ELSE 0

\* C6 amended: in every row of every sequential model of the report the
\* predicted class is 1 iff the up probability is above 0.5, and 0
\* otherwise; an up probability of exactly 0.5 gives 0.
C6_DirectionOfSequential ==
    Reported =>
        \A q \in Range(nn_names) : \A j \in DataRows :
            ret.val.data[Col(q, "_pred")][j] =
                IF Above(ret.val.data[Col(q, "_up")][j], Literal(Half)) THEN 1 ELSE 0

\* C6 witness: a sequential model whose up probability is exactly 0.5 predicts 0
C6_Witness ==
    /\ Reported
    /\ \E q \in Range(nn_names) : \E j \in DataRows :
          /\ ret.val.data[Col(q, "_up")][j] = Literal(Half)
          /\ ret.val.data[Col(q, "_pred")][j] = 0

\* the rows of a column of flags that say 'Right'
RightRows(t, c, rows) == {j \in rows : t.data[c][j] = "Right"}

\* the flags of model n in table t say 'Right' exactly where pred = actual
FlagsAgree(t, n, rows) ==
    \A j \in rows :
        /\ t.data[n][j] \in {"Right", "Wrong"}
        /\ t.data[n][j] = "Right" <=> t.data[Col(n, "_pred")][j] = t.data[Col(n, "_actual")][j]

SameLabels ==
    \A a, b \in Range(plain_names) \cup Range(nn_names) : StoredAttr(a).labels = StoredAttr(b).labels

\* C10: when all models read the same label column, in every data row of
\* the report the '_actual' of every sequential model, the '_actual' of
\* every plain model and the column 'actual' equal the label of the frame at
\* the date of the row; with no plain model eval_models returns no report.
C10_ActualAligned ==
    /\ (Reported /\ SameLabels) =>
          \A j \in DataRows :
              LET label == FrameRow(ret.val.index[j]).target
              IN  /\ \A n \in Range(plain_names) \cup Range(nn_names) :
                        ret.val.data[Col(n, "_actual")][j] = label
                  /\ ret.val.data["actual"][j] = label
    /\ (op = "eval_models" /\ plain_names = <<>>) => ret.kind = "raise"

\* C10 witness: a report with a sequential model stored with a scaled
\* feature, over a frame whose first and last labels differ, so that a
\* slice from the wrong end would show
C10_Witness ==
    /\ Reported /\ SameLabels
    /\ "lstm" \in Range(nn_names)
    /\ Len(df) = 3 /\ seq_len = 1
    /\ Column(df, "target") = <<1, 1, 0>>
    /\ ret.val.data["lstm_actual"][2] = 0

-----------------------------------------------------------------------------
(* Property of the metadata store, checked under SpecJson *)

\* C9: a lookup never raises; for a name with no stored metadata it returns
\* None, and for a name whose metadata was saved it returns metadata with
\* that name and the features, scaled features and statistics last saved;
\* after any sequence of calls.
C9_LookupNeverRaises ==
    op = "load_attr" =>
        /\ ret.kind = "return"
        /\ saved[asked] = None => ret.val = None
        /\ saved[asked] # None =>
              /\ ret.val.name = asked
              /\ ret.val.features = saved[asked].features
              /\ ret.val.scaled_feats = saved[asked].scaled_feats
              /\ ret.val.stats = saved[asked].stats

\* C9 witness: after two names were saved, the lookup of a name never saved gives None
C9_Witness ==
    /\ op = "load_attr"
    /\ Len(json) = 2
    /\ asked = "Non-Exists"
    /\ ret = Returned(None)

====
